---- MODULE Spec2Model ----
(***************************************************************************)
(* Model of xfields/platforms/py_opencl.py: the PyOpenCL platform          *)
(* (XfPyopenclPlatform), its kernel handles (XfPyopenclKernel) and its FFT *)
(* plans (XfPyopenclFFT), together with the command queue the three submit *)
(* device work to.                                                         *)
(*                                                                         *)
(* A failed `assert` or a raised exception is recorded as the status of    *)
(* the call in `ret`; the statuses carry the names of the error taxonomy   *)
(* for the assertions and the Python exception name for everything else.   *)
(***************************************************************************)
EXTENDS Naturals, Integers, Sequences, FiniteSets, TLC

(* ------------------------------ bounds --------------------------------- *)

\* largest number of units of work submitted to command queues in one run
MaxQueue == 2

(* --------------------------- input domains ----------------------------- *)

NoneVal == "None"

\* the context cl.create_some_context() creates, and contexts of the caller
CreatedContext == "c0"
UserContexts == {"c1", "c2"}

NoQueue == [name |-> NoneVal, context |-> NoneVal, in_order |-> TRUE]

\* cl.CommandQueue(ctx): a new, in-order queue bound to ctx
CommandQueue(ctx) == [name |-> "q0", context |-> ctx, in_order |-> TRUE]

\* command queues the caller may hand to the platform
UserQueues ==
    { [name |-> "q1", context |-> "c1", in_order |-> TRUE],
      [name |-> "q2", context |-> "c2", in_order |-> FALSE] }

KernelNames == {"k1", "k2"}
DefaultKernelName == "kd"
AllKernelNames == KernelNames \cup {DefaultKernelName}

\* kernel sources: "bad" does not build, the others build into programs
Sources == {"bad", "pA", "pB"}
DefaultSource == "pdef"

\* cl.Program(ctx, src).build(): the kernels of the program with their
\* parameter counts (num_args)
Compiled(src) ==
    CASE src = "pA"   -> [k \in {"k1", "k2"} |-> IF k = "k1" THEN 1 ELSE 2]
      [] src = "pB"   -> [k \in {"k1"} |-> 2]
      [] src = "pdef" -> [k \in {"kd"} |-> 2]
      [] OTHER        -> [k \in {} |-> 0]

Builds(src) == src # "bad"

Kinds == {"scalar", "array", "other"}
ArgNames == {"n", "x"}

\* values a caller can pass for an argument: a scalar, a host (numpy)
\* array, a device array of some context
Scalar == [tag |-> "scalar", ctx |-> NoneVal]
HostArray == [tag |-> "ndarray", ctx |-> NoneVal]
DevArray(c) == [tag |-> "cla.Array", ctx |-> c]
NoValue == [tag |-> NoneVal, ctx |-> NoneVal]

(* ------------------------------- state --------------------------------- *)

VARIABLES
    platform,   \* the XfPyopenclPlatform object (created or not)
    kernels,    \* platform._kernels: kernel name -> handle
    handle,     \* an XfPyopenclKernel constructed directly by the caller
    plan,       \* an XfPyopenclFFT plan
    work,       \* units of device work submitted so far, in order
    ret,        \* outcome of the last call
    aargs,      \* arguments of the last add_kernels call
    kwargs,     \* keyword arguments of the last kernel invocation
    fargs,      \* arguments of the last plan_FFT call
    cargs       \* arguments of the last platform construction

vars == <<platform, kernels, handle, plan, work, ret, aargs, kwargs, fargs,
          cargs>>

NoPlatform ==
    [created |-> FALSE, pyopencl_context |-> NoneVal, command_queue |-> NoQueue]

NoHandle == [none |-> TRUE]
NoPlan == [none |-> TRUE]

NoKwargs == [nm \in {} |-> NoValue]
NoAargs == [src_code |-> NoneVal, kernel_descriptions |-> <<>>]
NoFargs == [shape |-> <<>>, axes |-> <<>>]
NoCargs == [pyopencl_context |-> NoneVal, command_queue |-> NoQueue]

Ret(op, target, status, event) ==
    [op |-> op, target |-> target, status |-> status, event |-> event]

(* ----------------------- XfPyopenclKernel.__init__ --------------------- *)

\* membership of a name in a tuple of names
InSeq(x, s) == \E i \in 1..Len(s) : s[i] = x

\* the constructor without its second assertion
KernelInitStatusNoThreadsCheck(pyopencl_kernel, arg_names, arg_types, num_threads_from_arg) ==
    IF ~(Len(arg_names) = Len(arg_types)
         /\ Len(arg_types) = pyopencl_kernel.num_args)
    THEN "DescriptorMismatch"
    ELSE "ok"

\* the two assertions of the constructor
KernelInitStatus(pyopencl_kernel, arg_names, arg_types, num_threads_from_arg) ==
    IF ~(Len(arg_names) = Len(arg_types)
         /\ Len(arg_types) = pyopencl_kernel.num_args)
    THEN "DescriptorMismatch"
    ELSE IF ~InSeq(num_threads_from_arg, arg_names)
    THEN "DescriptorMismatch"
    ELSE "ok"

XfPyopenclKernel(pyopencl_kernel, arg_names, arg_types, num_threads_from_arg, command_queue, wait_on_call) ==
    [pyopencl_kernel |-> pyopencl_kernel,
     arg_names |-> arg_names,
     arg_types |-> arg_types,
     num_threads_from_arg |-> num_threads_from_arg,
     command_queue |-> command_queue,
     wait_on_call |-> wait_on_call]

(* ---------------------- XfPyopenclPlatform.add_kernels ----------------- *)

\* aa_types, aa_names = zip(*aa)   (aa is a tuple of <<kind, name>> pairs)
ZipTypes(aa) == [i \in 1..Len(aa) |-> aa[i][1]]
ZipNames(aa) == [i \in 1..Len(aa) |-> aa[i][2]]

\* one pass of the loop over ker_names: the status and the handle built
\* from the description kd = [name, args, num_threads_from_arg]
RegisterStatus(prg, ctx, kd) ==
    IF kd.name \notin DOMAIN prg THEN "AttributeError"
    ELSE IF Len(kd.args) = 0 THEN "ValueError"
    ELSE KernelInitStatus([name |-> kd.name, num_args |-> prg[kd.name],
                           context |-> ctx],
                          ZipNames(kd.args), ZipTypes(kd.args),
                          kd.num_threads_from_arg)

RegisterHandle(prg, ctx, queue, kd) ==
    XfPyopenclKernel([name |-> kd.name, num_args |-> prg[kd.name],
                      context |-> ctx],
                     ZipNames(kd.args), ZipTypes(kd.args),
                     kd.num_threads_from_arg, queue, TRUE)

\* the loop: handles are stored one by one, the first failure raises and
\* leaves the handles stored before it in place
RECURSIVE AddLoop(_, _, _, _, _, _)
AddLoop(kmap, prg, ctx, queue, kds, i) ==
    IF i > Len(kds) THEN [kernels |-> kmap, status |-> "ok"]
    ELSE LET st == RegisterStatus(prg, ctx, kds[i]) IN
         IF st # "ok" THEN [kernels |-> kmap, status |-> st]
         ELSE AddLoop([kmap EXCEPT ![kds[i].name] =
                              RegisterHandle(prg, ctx, queue, kds[i])],
                      prg, ctx, queue, kds, i + 1)

\* add_kernels as a function of the platform's fields
AddKernelsResult(kmap, ctx, queue, src_code, kernel_descriptions) ==
    IF ~Builds(src_code) THEN [kernels |-> kmap, status |-> "CompilationError"]
    ELSE AddLoop(kmap, Compiled(src_code), ctx, queue, kernel_descriptions, 1)

AddKernels(src_code, kernel_descriptions) ==
    /\ platform.created
    /\ LET r == AddKernelsResult(kernels, platform.pyopencl_context,
                                 platform.command_queue, src_code,
                                 kernel_descriptions) IN
       /\ kernels' = r.kernels
       /\ ret' = Ret("add_kernels", "platform", r.status, 0)
    /\ aargs' = [src_code |-> src_code,
                 kernel_descriptions |-> kernel_descriptions]
    /\ kwargs' = NoKwargs
    /\ fargs' = NoFargs
    /\ UNCHANGED <<platform, handle, plan, work, cargs>>

(* ---------------------- XfPyopenclPlatform.__init__ -------------------- *)

\* the bundled default kernels (default_kernels.py)
pyopencl_default_kernels ==
    [src_code |-> DefaultSource,
     kernel_descriptions |->
        << [name |-> DefaultKernelName,
            args |-> << <<"scalar", "n">>, <<"array", "x">> >>,
            num_threads_from_arg |-> "n"] >>]

EmptyKernels == [nn \in AllKernelNames |-> NoHandle]

\* context and queue the constructor ends up with
InitContext(pyopencl_context) ==
    IF pyopencl_context = NoneVal THEN CreatedContext ELSE pyopencl_context

InitQueue(pyopencl_context, command_queue) ==
    IF command_queue = NoQueue
    THEN CommandQueue(InitContext(pyopencl_context))
    ELSE command_queue

\* the constructor without its assertion
QueueMatchesContextUnchecked(command_queue, pyopencl_context) == TRUE

\* assert command_queue.context == pyopencl_context
QueueMatchesContext(command_queue, pyopencl_context) ==
    command_queue.context = pyopencl_context

Create(pyopencl_context, command_queue, default_kernels) ==
    /\ ~platform.created
    /\ LET ctx == InitContext(pyopencl_context)
           queue == InitQueue(pyopencl_context, command_queue)
           dk == IF default_kernels
                 THEN AddKernelsResult(EmptyKernels, ctx, queue,
                          pyopencl_default_kernels.src_code,
                          pyopencl_default_kernels.kernel_descriptions)
                 ELSE [kernels |-> EmptyKernels, status |-> "ok"]
       IN IF ~QueueMatchesContext(queue, ctx)
          THEN /\ ret' = Ret("create", "platform", "InvalidConfiguration", 0)
               /\ UNCHANGED <<platform, kernels>>
          ELSE IF dk.status # "ok"
          THEN /\ ret' = Ret("create", "platform", dk.status, 0)
               /\ UNCHANGED <<platform, kernels>>
          ELSE /\ platform' = [created |-> TRUE, pyopencl_context |-> ctx,
                               command_queue |-> queue]
               /\ kernels' = dk.kernels
               /\ ret' = Ret("create", "platform", "ok", 0)
    /\ cargs' = [pyopencl_context |-> pyopencl_context,
                 command_queue |-> command_queue]
    /\ aargs' = NoAargs
    /\ kwargs' = NoKwargs
    /\ fargs' = NoFargs
    /\ UNCHANGED <<handle, plan, work>>

(* ------------------------- the command queue --------------------------- *)

\* a unit of device work: a kernel launch with its global size, or an FFT
WorkItem(kind, gsize, queue) ==
    [kind |-> kind, gsize |-> gsize, queue |-> queue, done |-> FALSE]

\* event.wait() on the e-th unit: it has completed, and on an in-order
\* queue so has everything submitted to that queue before it
WaitEvent(w, e) ==
    [i \in 1..Len(w) |->
        IF i = e \/ (i < e /\ w[i].queue = w[e].queue /\ w[e].queue.in_order)
        THEN [w[i] EXCEPT !.done = TRUE]
        ELSE w[i]]

\* a call that never waits
AfterSubmitNoWait(w, e, wait_on_call) == w

\* if self.wait_on_call: event.wait()
AfterSubmit(w, e, wait_on_call) ==
    IF wait_on_call THEN WaitEvent(w, e) ELSE w

\* the device finishes a unit of work on its own
DeviceComplete(i) ==
    /\ i \in 1..Len(work)
    /\ ~work[i].done
    /\ work[i].queue.in_order =>
          \A j \in 1..(i - 1) : work[j].queue = work[i].queue => work[j].done
    /\ work' = [work EXCEPT ![i].done = TRUE]
    /\ UNCHANGED <<platform, kernels, handle, plan, ret, aargs, kwargs, fargs,
                   cargs>>

(* ---------------------- XfPyopenclPlatform.synchronize ----------------- *)

\* the body of synchronize is `pass`: the submitted work is left as it is
SynchronizeWork(w, queue) == w

Synchronize ==
    /\ platform.created
    /\ work' = SynchronizeWork(work, platform.command_queue)
    /\ ret' = Ret("synchronize", "platform", "ok", 0)
    /\ aargs' = NoAargs
    /\ kwargs' = NoKwargs
    /\ fargs' = NoFargs
    /\ UNCHANGED <<platform, kernels, handle, plan, cargs>>

(* ----------------------- XfPyopenclKernel.__call__ --------------------- *)

\* np.isscalar(vv)
IsScalar(vv) == vv.tag = "scalar"

\* isinstance(vv, cla.Array)
IsClaArray(vv) == vv.tag = "cla.Array"

\* an array check that ignores the context
SameContextUnchecked(vv, pyopencl_kernel) == TRUE

\* vv.context == self.pyopencl_kernel.context
SameContext(vv, pyopencl_kernel) == vv.ctx = pyopencl_kernel.context

\* the loop over zip(arg_names, arg_types), from the i-th argument on
RECURSIVE ArgLoop(_, _, _)
ArgLoop(h, kw, i) ==
    IF i > Len(h.arg_names) \/ i > Len(h.arg_types) THEN "ok"
    ELSE LET nn == h.arg_names[i]
             tt == h.arg_types[i]
         IN IF nn \notin DOMAIN kw THEN "KeyError"
            ELSE IF tt = "scalar"
                 THEN IF ~IsScalar(kw[nn]) THEN "TypeMismatchError"
                      ELSE ArgLoop(h, kw, i + 1)
            ELSE IF tt = "array"
                 THEN IF ~IsClaArray(kw[nn]) THEN "TypeMismatchError"
                      ELSE IF ~SameContext(kw[nn], h.pyopencl_kernel)
                           THEN "TypeMismatchError"
                      ELSE ArgLoop(h, kw, i + 1)
            ELSE "ValueError"

\* everything __call__ does before it enqueues the kernel
CallStatus(h, kw) ==
    IF Cardinality(DOMAIN kw) # Len(h.arg_names) THEN "ArityError"
    ELSE ArgLoop(h, kw, 1)

\* a global size taken from the first declared argument
GlobalSizeOfFirstArg(h, kw) == kw[h.arg_names[1]]

\* the global size of the launch: (kwargs[self.num_threads_from_arg],)
GlobalSize(h, kw) == kw[h.num_threads_from_arg]

\* a call that enqueues the kernel before it validates the arguments
CallWorkEager(w, h, kw) ==
    AfterSubmit(Append(w, WorkItem("kernel",
                                   IF h.num_threads_from_arg \in DOMAIN kw
                                   THEN kw[h.num_threads_from_arg]
                                   ELSE NoValue,
                                   h.command_queue)),
                Len(w) + 1, h.wait_on_call)

\* the work of the queue after the call
CallWork(w, h, kw) ==
    IF CallStatus(h, kw) # "ok" THEN w
    ELSE AfterSubmit(Append(w, WorkItem("kernel", GlobalSize(h, kw),
                                        h.command_queue)),
                     Len(w) + 1, h.wait_on_call)

\* the handle a call goes to: a registered kernel or the caller's own
Handle(target) == IF target = "direct" THEN handle ELSE kernels[target]

Invoke(target, kw) ==
    /\ Len(work) < MaxQueue
    /\ Handle(target) # NoHandle
    /\ LET h == Handle(target)
           st == CallStatus(h, kw)
       IN /\ work' = CallWork(work, h, kw)
          /\ ret' = Ret("invoke", target, st,
                        IF st = "ok" THEN Len(work) + 1 ELSE 0)
    /\ kwargs' = kw
    /\ aargs' = NoAargs
    /\ fargs' = NoFargs
    /\ UNCHANGED <<platform, kernels, handle, plan, cargs>>

\* a caller constructs an XfPyopenclKernel of its own
NewKernel(pyopencl_kernel, arg_names, arg_types, num_threads_from_arg, command_queue, wait_on_call) ==
    /\ handle = NoHandle
    /\ LET st == KernelInitStatus(pyopencl_kernel, arg_names, arg_types,
                                  num_threads_from_arg)
       IN /\ handle' = IF st = "ok"
                       THEN XfPyopenclKernel(pyopencl_kernel, arg_names,
                                arg_types, num_threads_from_arg,
                                command_queue, wait_on_call)
                       ELSE handle
          /\ ret' = Ret("new_kernel", "direct", st, 0)
    /\ aargs' = NoAargs
    /\ kwargs' = NoKwargs
    /\ fargs' = NoFargs
    /\ UNCHANGED <<platform, kernels, plan, work, cargs>>

(* ----------------------------- XfPyopenclFFT --------------------------- *)

RECURSIVE MaxOf(_)
MaxOf(s) ==
    IF Len(s) = 1 THEN s[1]
    ELSE LET m == MaxOf(Tail(s)) IN IF s[1] > m THEN s[1] ELSE m

\* the largest power of two that is at most nn (nn >= 1)
RECURSIVE FloorPow2(_)
FloorPow2(nn) == IF nn < 2 THEN 1 ELSE 2 * FloorPow2(nn \div 2)

\* 1 / (2^(1e-8) - 1): the fractional part of log2(nn) is within the
\* tolerance of np.isclose(frac_part, 0), atol = 1e-8, exactly when
\* (nn - p) * InvTol <= p for p the largest power of two at most nn
InvTol == 144269504

\* frac_part, _ = np.modf(np.log(nn)/np.log(2)); np.isclose(frac_part, 0)
\* log(0) is -inf, whose fractional part is -0.0
CloseToPowerOfTwo(nn) ==
    \/ nn = 0
    \/ nn - FloorPow2(nn) <= FloorPow2(nn) \div InvTol

\* data.shape[ii] for a Python index ii (negative counts from the end)
ShapeAt(shape, ii) ==
    IF ii >= 0 THEN shape[ii + 1] ELSE shape[Len(shape) + ii + 1]

\* axes[:-1]
AllButLast(axes) == SubSeq(axes, 1, Len(axes) - 1)

\* the loop over axes[:-1], from the i-th of them on
RECURSIVE AxesLoop(_, _, _)
AxesLoop(shape, inner, i) ==
    IF i > Len(inner) THEN "ok"
    ELSE IF inner[i] < 0 - Len(shape) THEN "IndexError"
    ELSE IF ~CloseToPowerOfTwo(ShapeAt(shape, inner[i]))
         THEN "UnsupportedShape"
    ELSE AxesLoop(shape, inner, i + 1)

\* everything __init__ does before it builds the gpyfft plan
PreflightStatus(shape, axes) ==
    IF Len(axes) = 0 THEN "ValueError"
    ELSE IF ~(Len(shape) > MaxOf(axes)) THEN "InvalidAxes"
    ELSE AxesLoop(shape, AllButLast(axes), 1)

\* statuses of a plan_FFT call that never reached gpyfft.fft.FFT(...)
PreflightFailures == {"ValueError", "InvalidAxes", "IndexError",
                      "UnsupportedShape"}

XfPyopenclFFT(shape, axes, wait_on_call) ==
    [shape |-> shape, axes |-> axes, wait_on_call |-> wait_on_call]

\* plan_FFT; `backend` is what gpyfft.fft.FFT(...) answers when reached
PlanFFT(shape, axes, wait_on_call, backend) ==
    /\ platform.created
    /\ plan = NoPlan
    /\ LET pre == PreflightStatus(shape, axes)
           st == IF pre # "ok" THEN pre ELSE backend
       IN /\ plan' = IF st = "ok"
                     THEN XfPyopenclFFT(shape, axes, wait_on_call)
                     ELSE plan
          /\ ret' = Ret("plan_FFT", "plan", st, 0)
    /\ fargs' = [shape |-> shape, axes |-> axes]
    /\ aargs' = NoAargs
    /\ kwargs' = NoKwargs
    /\ UNCHANGED <<platform, kernels, handle, work, cargs>>

\* the work of the queue after transform / itransform
TransformWork(w, kind, queue, wait_on_call) ==
    AfterSubmit(Append(w, WorkItem(kind, NoValue, queue)),
                Len(w) + 1, wait_on_call)

\* transform (forward) and itransform; self._fftobj.enqueue_arrays(data)
\* is gpyfft's: `backend` is its answer to data of another shape
Transform(forward, shape, backend) ==
    /\ Len(work) < MaxQueue
    /\ plan # NoPlan
    /\ LET st == IF shape = plan.shape THEN "ok" ELSE backend
           op == IF forward THEN "transform" ELSE "itransform"
       IN /\ work' = IF st = "ok"
                     THEN TransformWork(work, IF forward THEN "fft" ELSE "ifft",
                                        platform.command_queue,
                                        plan.wait_on_call)
                     ELSE work
          /\ ret' = Ret(op, "plan", st, IF st = "ok" THEN Len(work) + 1 ELSE 0)
    /\ fargs' = [shape |-> shape, axes |-> <<>>]
    /\ aargs' = NoAargs
    /\ kwargs' = NoKwargs
    /\ UNCHANGED <<platform, kernels, handle, plan, cargs>>

(* ------------------------------ Init ----------------------------------- *)

Init ==
    /\ platform = NoPlatform
    /\ kernels = EmptyKernels
    /\ handle = NoHandle
    /\ plan = NoPlan
    /\ work = <<>>
    /\ ret = Ret("none", "none", "ok", 0)
    /\ aargs = NoAargs
    /\ kwargs = NoKwargs
    /\ fargs = NoFargs
    /\ cargs = NoCargs

(* ------------------- the platform and its kernel mapping --------------- *)

\* descriptions offered to add_kernels: no, one or two arguments, with a
\* launch-width name that may or may not be among them
PlatformArgLists ==
    { <<>>,
      << <<"scalar", "n">> >>,
      << <<"array", "x">> >>,
      << <<"scalar", "n">>, <<"array", "x">> >> }

PlatformDescriptions ==
    { [name |-> nn, args |-> aa, num_threads_from_arg |-> nt] :
        nn \in KernelNames, aa \in PlatformArgLists, nt \in {"n", "m"} }

\* kernel_descriptions is a dict: its names are distinct
PlatformKds ==
    { <<d>> : d \in PlatformDescriptions }
    \cup { <<d, e>> : d \in { x \in PlatformDescriptions : x.name = "k1" },
                      e \in { x \in PlatformDescriptions : x.name = "k2" } }

CreateAny ==
    \E c \in UserContexts \cup {NoneVal}, q \in UserQueues \cup {NoQueue},
       dk \in BOOLEAN : Create(c, q, dk)

NextPlatform ==
    \/ CreateAny
    \/ \E src \in Sources, kds \in PlatformKds : AddKernels(src, kds)

SpecPlatform == Init /\ [][NextPlatform]_vars

(* --------------------- one kernel handle and its calls ----------------- *)

\* constructor arguments of a handle built by the caller
HandleArgNames ==
    { <<a>> : a \in ArgNames } \cup { <<a, b>> : a \in ArgNames, b \in ArgNames }

HandleArgTypes ==
    { <<a>> : a \in Kinds } \cup { <<a, b>> : a \in Kinds, b \in Kinds }

HandleKernels ==
    { [name |-> "k", num_args |-> na, context |-> "c1"] : na \in {1, 2} }

\* keyword arguments of a call: any values for any of these names
CallNames == ArgNames \cup {"z"}
CallValues == {Scalar, HostArray, DevArray("c1"), DevArray("c2")}
CallKwargs == UNION { [S -> CallValues] : S \in SUBSET CallNames }

NewKernelAny ==
    \E pk \in HandleKernels, an \in HandleArgNames, at \in HandleArgTypes,
       nt \in ArgNames \cup {"m"}, q \in UserQueues, wc \in BOOLEAN :
          NewKernel(pk, an, at, nt, q, wc)

NextKernel ==
    \/ NewKernelAny
    \/ \E kw \in CallKwargs : Invoke("direct", kw)

SpecKernel == Init /\ [][NextKernel]_vars

(* --------------------------- FFT plans --------------------------------- *)

\* axis lengths: zero, a power of two, another length, and one a little
\* above 2^28
Lengths == {0, 3, 4, 268435457}

Shapes ==
    { <<a>> : a \in Lengths } \cup { <<a, b>> : a \in Lengths, b \in Lengths }

AxisIndices == {-1, 0, 1}

AxesLists ==
    {<<>>}
    \cup { <<a>> : a \in AxisIndices }
    \cup { <<a, b>> : a \in AxisIndices, b \in AxisIndices }
    \cup { <<0, 1, 0>>, <<1, 0, 1>> }

BackendAnswers == {"ok", "BackendError"}

CreateDefault == \E dk \in BOOLEAN : Create(NoneVal, NoQueue, dk)

PlanFFTAny ==
    \E shape \in Shapes, axes \in AxesLists, wc \in BOOLEAN,
       b \in BackendAnswers : PlanFFT(shape, axes, wc, b)

TransformAny ==
    /\ plan # NoPlan
    /\ \E fw \in BOOLEAN, shape \in {plan.shape, <<3>>},
          b \in BackendAnswers : Transform(fw, shape, b)

DeviceCompleteAny == \E i \in 1..MaxQueue : DeviceComplete(i)

NextFFT ==
    \/ CreateDefault
    \/ PlanFFTAny
    \/ TransformAny
    \/ DeviceCompleteAny

SpecFFT == Init /\ [][NextFFT]_vars

(* ------------------------- the whole platform -------------------------- *)

ScaleArgs == << <<"scalar", "n">>, <<"array", "x">> >>

SmallKds ==
    { << [name |-> "k2", args |-> ScaleArgs, num_threads_from_arg |-> nt] >> :
        nt \in {"n", "m"} }

SmallKwargs ==
    { [nm \in {"n", "x"} |-> IF nm = "n" THEN Scalar ELSE v] :
        v \in {DevArray(CreatedContext), DevArray("c1"), HostArray} }

Next ==
    \/ CreateAny
    \/ \E kds \in SmallKds : AddKernels("pA", kds)
    \/ \E q \in UserQueues, wc \in BOOLEAN :
          NewKernel([name |-> "k", num_args |-> 2, context |-> "c1"],
                    <<"n", "x">>, <<"scalar", "array">>, "n", q, wc)
    \/ \E t \in AllKernelNames \cup {"direct"}, kw \in SmallKwargs :
          Invoke(t, kw)
    \/ \E shape \in {<<4, 4>>, <<3, 4>>}, wc \in BOOLEAN,
          b \in BackendAnswers : PlanFFT(shape, <<0, 1>>, wc, b)
    \/ \E fw \in BOOLEAN, shape \in {<<4, 4>>, <<3>>},
          b \in BackendAnswers : Transform(fw, shape, b)
    \/ DeviceCompleteAny
    \/ Synchronize

Spec == Init /\ [][Next]_vars

(* ======================= properties of the model ======================= *)

\* the names a handle declares
DeclaredNames(h) == { h.arg_names[i] : i \in 1..Len(h.arg_names) }

\* a value is what the declared kind asks for: a scalar for 'scalar', a
\* device array of the kernel's context for 'array'
Matches(kind, vv, ctx) ==
    \/ kind = "scalar" /\ vv.tag = "scalar"
    \/ kind = "array" /\ vv.tag = "cla.Array" /\ vv.ctx = ctx

\* the names of the call are exactly the declared ones, one value each
NamesMatch(h, kw) ==
    /\ DOMAIN kw = DeclaredNames(h)
    /\ Cardinality(DOMAIN kw) = Len(h.arg_names)

ValidArgs(h, kw) ==
    /\ NamesMatch(h, kw)
    /\ \A i \in 1..Len(h.arg_names) :
          Matches(h.arg_types[i], kw[h.arg_names[i]], h.pyopencl_kernel.context)

\* the step is the return of a kernel invocation
InvokeStep == ret'.op = "invoke" /\ (ret' # ret \/ kwargs' # kwargs)

RECURSIVE IsPowerOfTwo(_)
IsPowerOfTwo(nn) ==
    nn = 1 \/ (nn > 1 /\ nn % 2 = 0 /\ IsPowerOfTwo(nn \div 2))

\* C1: once synchronize() has returned, every unit of work submitted
\* before it on the platform's command queue has completed.
C1_SynchronizeCompletesAll ==
    ret.op = "synchronize" =>
        \A i \in 1..Len(work) :
            work[i].queue = platform.command_queue => work[i].done

\* C2: an invocation whose argument names are not exactly the declared
\* names fails with the arity error and launches nothing.
C2_NameMismatchIsArityError ==
    (ret.op = "invoke" /\ DOMAIN kwargs # DeclaredNames(Handle(ret.target)))
        => (ret.status = "ArityError" /\ ret.event = 0)

\* C3: an invocation with valid arguments succeeds, and a successful
\* invocation submits exactly one kernel launch, whose global size is the
\* value passed for the argument named by num_threads_from_arg.
C3_LaunchWidth ==
    [][InvokeStep =>
        LET h == Handle(ret'.target) IN
        /\ ValidArgs(h, kwargs') => ret'.status = "ok"
        /\ ret'.status = "ok" =>
              /\ Len(work') = Len(work) + 1
              /\ ret'.event = Len(work')
              /\ work'[Len(work')].kind = "kernel"
              /\ work'[Len(work')].gsize = kwargs'[h.num_threads_from_arg]
              /\ \A i \in 1..Len(work) :
                    /\ work'[i].kind = work[i].kind
                    /\ work'[i].gsize = work[i].gsize
                    /\ work'[i].queue = work[i].queue]_vars

C3_Witness ==
    /\ ret.op = "invoke"
    /\ ret.status = "ok"
    /\ Len(handle.arg_names) = 2
    /\ ValidArgs(handle, kwargs)
    /\ handle.num_threads_from_arg = handle.arg_names[2]
    /\ kwargs[handle.arg_names[1]] # kwargs[handle.arg_names[2]]
    /\ work[ret.event].gsize = kwargs[handle.arg_names[2]]

\* C4: with the declared names supplied and the declared kinds being
\* 'scalar' or 'array', a value that is not what its argument declares (a
\* non-scalar for 'scalar'; a host array or a device array of another
\* context for 'array') makes the invocation fail with the type-mismatch
\* error.
C4_KindMismatch ==
    ret.op = "invoke" =>
        LET h == Handle(ret.target) IN
        ( /\ NamesMatch(h, kwargs)
          /\ \A i \in 1..Len(h.arg_types) : h.arg_types[i] \in {"scalar", "array"}
          /\ \E i \in 1..Len(h.arg_names) :
                ~Matches(h.arg_types[i], kwargs[h.arg_names[i]],
                         h.pyopencl_kernel.context) )
        => (ret.status = "TypeMismatchError" /\ ret.event = 0)

\* an array of another context passed for the second, 'array', argument
C4_Witness ==
    /\ ret.op = "invoke"
    /\ ret.status = "TypeMismatchError"
    /\ NamesMatch(handle, kwargs)
    /\ handle.arg_types = <<"scalar", "array">>
    /\ kwargs[handle.arg_names[1]].tag = "scalar"
    /\ kwargs[handle.arg_names[2]].tag = "cla.Array"
    /\ kwargs[handle.arg_names[2]].ctx # handle.pyopencl_kernel.context

\* wait_on_call of the handle or plan the last call went to
WaitOnCall(r) ==
    IF r.op = "invoke" THEN Handle(r.target).wait_on_call
    ELSE plan.wait_on_call

\* C5: a kernel invocation or FFT transform that submits work returns the
\* event of that work; with wait_on_call the work has completed at the
\* return, without it the work is still in flight and nothing was waited
\* for.
C5_WaitOnCall ==
    [][Len(work') > Len(work) =>
        LET e == Len(work') IN
        /\ ret'.op \in {"invoke", "transform", "itransform"}
        /\ ret'.status = "ok"
        /\ ret'.event = e
        /\ WaitOnCall(ret') => work'[e].done
        /\ ~WaitOnCall(ret') =>
              /\ ~work'[e].done
              /\ \A i \in 1..Len(work) : work'[i] = work[i]]_vars

\* a waited kernel launch completed while an unwaited transform is in flight
C5_Witness ==
    /\ ret.op = "invoke"
    /\ ret.status = "ok"
    /\ WaitOnCall(ret)
    /\ work[ret.event].done
    /\ \E j \in 1..Len(work) : work[j].kind \in {"fft", "ifft"} /\ ~work[j].done

\* what the constructor of a handle guarantees
HandleInv(h) ==
    /\ Len(h.arg_names) = Len(h.arg_types)
    /\ Len(h.arg_types) = h.pyopencl_kernel.num_args
    /\ InSeq(h.num_threads_from_arg, h.arg_names)

DescNames(kd) == { kd.args[i][2] : i \in 1..Len(kd.args) }

\* a description of a kernel of the program that fits it
WellFormed(prg, kd) ==
    /\ kd.name \in DOMAIN prg
    /\ Len(kd.args) > 0
    /\ Len(kd.args) = prg[kd.name]
    /\ kd.num_threads_from_arg \in DescNames(kd)

\* a description of a kernel of the program with the wrong number of
\* arguments or a launch-width name that is not an argument
Violates(prg, kd) ==
    /\ kd.name \in DOMAIN prg
    /\ Len(kd.args) > 0
    /\ \/ Len(kd.args) # prg[kd.name]
       \/ kd.num_threads_from_arg \notin DescNames(kd)

\* the step is the return of add_kernels
AddStep ==
    /\ ret'.op = "add_kernels"
    /\ (ret' # ret \/ aargs' # aargs \/ kernels' # kernels)

\* the first description of the call that is not well formed violates one
\* of the two conditions
FirstViolation(prg, kds, i) ==
    /\ \A j \in 1..(i - 1) : WellFormed(prg, kds[j])
    /\ Violates(prg, kds[i])

ValidAxes(shape, axes) ==
    /\ Len(axes) > 0
    /\ \A i \in 1..Len(axes) : axes[i] >= 0 - Len(shape) /\ axes[i] < Len(shape)

\* C7: plan_FFT fails before the backend plan is built when a transformed
\* axis other than the last has a length that is not a power of two, and
\* the check passes when all those lengths are powers of two.
C7_PowerOfTwoPreflight ==
    (ret.op = "plan_FFT" /\ ValidAxes(fargs.shape, fargs.axes)) =>
        LET inner == AllButLast(fargs.axes) IN
        IF \E i \in 1..Len(inner) : ~IsPowerOfTwo(ShapeAt(fargs.shape, inner[i]))
        THEN ret.status \in PreflightFailures
        ELSE ret.status \notin PreflightFailures

\* C9: a context passed together with a queue of another context makes the
\* construction fail with the invalid-configuration error; the queue of a
\* created platform is bound to its context, and every handle the platform
\* registers is bound to that queue.
C9_QueueBoundToContext ==
    /\ ( /\ ret.op = "create"
         /\ cargs.pyopencl_context # NoneVal
         /\ cargs.command_queue # NoQueue
         /\ cargs.command_queue.context # cargs.pyopencl_context )
       => (ret.status = "InvalidConfiguration" /\ ~platform.created)
    /\ platform.created =>
          /\ platform.command_queue.context = platform.pyopencl_context
          /\ \A nn \in AllKernelNames :
                kernels[nn] # NoHandle =>
                   kernels[nn].command_queue = platform.command_queue

\* a platform created with a queue of the caller, with a kernel added later
C9_Witness ==
    /\ platform.created
    /\ cargs.command_queue \in UserQueues
    /\ platform.command_queue = cargs.command_queue
    /\ kernels["k1"] # NoHandle
    /\ kernels["k1"].command_queue = cargs.command_queue

\* C10: an invocation that fails leaves the submitted work and the handles
\* as they were, and an invocation with a declared argument that is missing
\* or of the wrong kind fails.
C10_FailFast ==
    [][InvokeStep =>
        LET h == Handle(ret'.target) IN
        /\ (\E i \in 1..Len(h.arg_names) :
               \/ h.arg_names[i] \notin DOMAIN kwargs'
               \/ ~Matches(h.arg_types[i], kwargs'[h.arg_names[i]],
                           h.pyopencl_kernel.context))
              => ret'.status # "ok"
        /\ ret'.status # "ok" =>
              /\ work' = work
              /\ handle' = handle
              /\ kernels' = kernels
              /\ ret'.event = 0 ]_vars

\* a call that failed on its second argument after an earlier launch
C10_Witness ==
    /\ ret.op = "invoke"
    /\ ret.status = "TypeMismatchError"
    /\ Len(work) >= 1
    /\ Len(handle.arg_names) = 2
    /\ handle.arg_names[1] \in DOMAIN kwargs
    /\ Matches(handle.arg_types[1], kwargs[handle.arg_names[1]],
               handle.pyopencl_kernel.context)

====
